---- MODULE Spec2Model ----
(***************************************************************************)
(* PARA-fect: the settings tab's folder-path fields (normalisation on      *)
(* blur, validateParaFolderPath, commit / revert) and the local release    *)
(* script.  Strings are sequences of one-character strings, so that        *)
(* trimming, stripping, splitting and comparing are computed, not assumed. *)
(***************************************************************************)
EXTENDS Integers, Sequences, FiniteSets, TLC

VARIABLES settings, fieldText, errStyled, pending,
          args, ret,
          pc, files, log, exitCode

vars == <<settings, fieldText, errStyled, pending, args, ret, pc, files, log, exitCode>>

uiVars == <<settings, fieldText, errStyled, pending>>

fnVars == <<args, ret>>

relVars == <<pc, files, log, exitCode>>

(***************************************************************************)
(* Bounds                                                                  *)
(***************************************************************************)
\* longest raw text typed into a field when normalisation is checked alone
MaxLen == 4

\* longest path over PathChars when validation is checked alone
MaxPathLen == 3

\* most saveSettings calls awaited at once
MaxPending == 2

\* largest component of the version read from manifest.json
MaxVer == 1

(***************************************************************************)
(* Strings                                                                 *)
(***************************************************************************)
Whitespace == {" "}

Chars == {"a", "/", " "}

PathChars == {"a", "/"}

RECURSIVE StringsOver(_, _)
StringsOver(alphabet, n) ==
  IF n = 0 THEN {<<>>}
  ELSE LET shorter == StringsOver(alphabet, n - 1)
       IN shorter \cup {Append(s, c) : s \in {t \in shorter : Len(t) = n - 1}, c \in alphabet}

Last(s) == s[Len(s)]

Front(s) == SubSeq(s, 1, Len(s) - 1)

\* String.prototype.startsWith
StartsWith(s, p) == Len(p) <= Len(s) /\ SubSeq(s, 1, Len(p)) = p

RECURSIVE TrimStart(_)
TrimStart(s) ==
  IF s # <<>> /\ Head(s) \in Whitespace THEN TrimStart(Tail(s)) ELSE s

RECURSIVE TrimEnd(_)
TrimEnd(s) ==
  IF s # <<>> /\ Last(s) \in Whitespace THEN TrimEnd(Front(s)) ELSE s

\* String.prototype.trim
trim(s) == TrimEnd(TrimStart(s))

\* s.replace(/\/+$/, "")
RECURSIVE StripTrailingSlashes(_)
StripTrailingSlashes(s) ==
  IF s # <<>> /\ Last(s) = "/" THEN StripTrailingSlashes(Front(s)) ELSE s

\* s.split("/")
RECURSIVE Split(_)
Split(s) ==
  IF \A i \in 1..Len(s) : s[i] # "/" THEN <<s>>
  ELSE LET k == CHOOSE i \in 1..Len(s) : s[i] = "/" /\ \A j \in 1..(i - 1) : s[j] # "/"
       IN <<SubSeq(s, 1, k - 1)>> \o Split(SubSeq(s, k + 1, Len(s)))

IsStrictPrefix(p, q) == Len(p) < Len(q) /\ SubSeq(q, 1, Len(p)) = p

(***************************************************************************)
(* Settings                                                                *)
(***************************************************************************)
Projects == <<"P", "r", "o", "j", "e", "c", "t", "s">>

Areas == <<"A", "r", "e", "a", "s">>

Resources == <<"R", "e", "s", "o", "u", "r", "c", "e", "s">>

Archive == <<"A", "r", "c", "h", "i", "v", "e">>

DEFAULT_SETTINGS ==
  [projectsPath |-> Projects, areasPath |-> Areas, resourcesPath |-> Resources,
   archivePath |-> Archive, focusAfterArchive |-> TRUE, confirmBeforeArchive |-> FALSE]

ParaFolderField == {"projectsPath", "areasPath", "resourcesPath", "archivePath"}

FOLDER_NAMES ==
  [projectsPath |-> "Projects", areasPath |-> "Areas", resourcesPath |-> "Resources",
   archivePath |-> "Archive"]

FOLDER_DEFAULTS ==
  [projectsPath |-> Projects, areasPath |-> Areas, resourcesPath |-> Resources,
   archivePath |-> Archive]

allFields == <<"projectsPath", "areasPath", "resourcesPath", "archivePath">>

\* an empty result is passed on instead of the field's default
normalizedNoDefault(value, field) == StripTrailingSlashes(trim(value))

\* value.trim().replace(/\/+$/, "") || FOLDER_DEFAULTS[field]
normalized(value, field) ==
  LET n == StripTrailingSlashes(trim(value))
  IN IF n = <<>> THEN FOLDER_DEFAULTS[field] ELSE n

\* one path is a directory-hierarchy ancestor of the other
isNestedPath(a, b) ==
  IsStrictPrefix(Split(a), Split(b)) \/ IsStrictPrefix(Split(b), Split(a))

null == <<>>

SameMsg(field, otherField) ==
  <<FOLDER_NAMES[field], " folder cannot be the same as ", FOLDER_NAMES[otherField], " folder">>

NestedMsg(field, otherField) ==
  <<FOLDER_NAMES[field], " folder cannot be nested with ", FOLDER_NAMES[otherField], " folder">>

\* the edited field is not filtered out
otherFieldsUnfiltered(field) == allFields

otherFieldsOf(field) == SelectSeq(allFields, LAMBDA f : f # field)

\* equality is checked against every other field before any nesting check
RECURSIVE NestedPass(_, _, _, _)
NestedPass(newPath, field, s, others) ==
  IF others = <<>> THEN null
  ELSE IF isNestedPath(newPath, s[Head(others)]) THEN NestedMsg(field, Head(others))
  ELSE NestedPass(newPath, field, s, Tail(others))

RECURSIVE ValidateTwoPass(_, _, _, _)
ValidateTwoPass(newPath, field, s, others) ==
  LET same == SelectSeq(others, LAMBDA f : s[f] = newPath)
  IN IF same # <<>> THEN SameMsg(field, Head(same))
     ELSE NestedPass(newPath, field, s, others)

\* the nesting check is left out
RECURSIVE ValidateSameOnly(_, _, _, _)
ValidateSameOnly(newPath, field, s, others) ==
  IF others = <<>> THEN null
  ELSE IF newPath = s[Head(others)] THEN SameMsg(field, Head(others))
  ELSE ValidateSameOnly(newPath, field, s, Tail(others))

\* nesting decided by a raw string prefix instead of isNestedPath
RECURSIVE ValidateRawPrefix(_, _, _, _)
ValidateRawPrefix(newPath, field, s, others) ==
  IF others = <<>> THEN null
  ELSE LET otherField == Head(others)
           otherPath == s[otherField]
       IN IF newPath = otherPath THEN SameMsg(field, otherField)
          ELSE IF StartsWith(newPath, otherPath) \/ StartsWith(otherPath, newPath)
               THEN NestedMsg(field, otherField)
          ELSE ValidateRawPrefix(newPath, field, s, Tail(others))

RECURSIVE ValidateLoop(_, _, _, _)
ValidateLoop(newPath, field, s, others) ==
  IF others = <<>> THEN null
  ELSE LET otherField == Head(others)
           otherPath == s[otherField]
       IN IF newPath = otherPath THEN SameMsg(field, otherField)
          ELSE IF isNestedPath(newPath, otherPath) THEN NestedMsg(field, otherField)
          ELSE ValidateLoop(newPath, field, s, Tail(others))

validateParaFolderPath(newPath, field, s) ==
  ValidateLoop(newPath, field, s, otherFieldsOf(field))

(***************************************************************************)
(* Idle values of the parts a specification does not exercise              *)
(***************************************************************************)
NotRun == <<"not run">>

UiIdle ==
  /\ settings = DEFAULT_SETTINGS
  /\ fieldText = [f \in ParaFolderField |-> DEFAULT_SETTINGS[f]]
  /\ errStyled = {}
  /\ pending = 0

FnIdle == args = <<>> /\ ret = NotRun

RelIdle == pc = "idle" /\ files = <<>> /\ log = <<>> /\ exitCode = -1

(***************************************************************************)
(* Normalisation alone: a raw text and a field, normalised, and the        *)
(* result put back in the field as display() does with a committed path    *)
(***************************************************************************)
RawTexts == StringsOver(Chars, MaxLen)

InitNorm ==
  /\ args \in [value : RawTexts, field : ParaFolderField]
  /\ ret = NotRun
  /\ UiIdle /\ RelIdle

Normalize ==
  /\ ret = NotRun
  /\ ret' = normalized(args.value, args.field)
  /\ UNCHANGED <<args, uiVars, relVars>>

Redisplay ==
  /\ ret # NotRun
  /\ ret # args.value
  /\ args' = [args EXCEPT !.value = ret]
  /\ ret' = NotRun
  /\ UNCHANGED <<uiVars, relVars>>

NextNorm == Normalize \/ Redisplay

SpecNorm == InitNorm /\ [][NextNorm]_vars

(***************************************************************************)
(* Validation alone: a normalised candidate, a field and an assignment     *)
(***************************************************************************)
\* normalised paths: non-empty, no trailing "/"
Paths == {p \in StringsOver(PathChars, MaxPathLen) : p # <<>> /\ Last(p) # "/"}

\* every assignment of the other three fields; the edited field holds either
\* its default or, stale, the candidate itself
Assignments(newPath, field) ==
  {[DEFAULT_SETTINGS EXCEPT !.projectsPath = q[1], !.areasPath = q[2],
                            !.resourcesPath = q[3], !.archivePath = q[4]] :
     q \in {r \in [1..4 -> Paths \cup {FOLDER_DEFAULTS[field]}] :
              /\ \A i \in 1..4 : allFields[i] # field => r[i] \in Paths
              /\ \A i \in 1..4 : allFields[i] = field
                                   => r[i] \in {newPath, FOLDER_DEFAULTS[field]}}}

InitValidate ==
  /\ \E newPath \in Paths, field \in ParaFolderField :
       \E s \in Assignments(newPath, field) :
         args = [newPath |-> newPath, field |-> field, settings |-> s]
  /\ ret = NotRun
  /\ UiIdle /\ RelIdle

Validate ==
  /\ ret = NotRun
  /\ ret' = validateParaFolderPath(args.newPath, args.field, args.settings)
  /\ UNCHANGED <<args, uiVars, relVars>>

NextValidate == Validate

SpecValidate == InitValidate /\ [][NextValidate]_vars

(***************************************************************************)
(* Claims about validation alone (SpecValidate)                            *)
(***************************************************************************)
RoleIndex == [projectsPath |-> 1, areasPath |-> 2, resourcesPath |-> 3, archivePath |-> 4]

\* a is inside the directory b: a continues b with "/" and more
Inside(a, b) == StartsWith(a, Append(b, "/"))

Nests(a, b) == Inside(a, b) \/ Inside(b, a)

\* the fields other than field whose path equals or nests with newPath
ConflictingFields(newPath, field, s) ==
  {f \in ParaFolderField \ {field} : s[f] = newPath \/ Nests(newPath, s[f])}

FirstOf(fs) == CHOOSE f \in fs : \A g \in fs : RoleIndex[f] <= RoleIndex[g]

Validated == ret # NotRun /\ DOMAIN args = {"newPath", "field", "settings"}

\* C1: validateParaFolderPath(P, R, A) is null exactly when P neither equals
\* nor nests with the path of any of the other three roles in A (whatever A
\* holds for R itself); otherwise it is the same-path message when the first
\* conflicting role's path equals P and the nested-path message when it nests.
C1_ValidIffNoConflict ==
  Validated =>
    LET P == args.newPath
        R == args.field
        A == args.settings
        cs == ConflictingFields(P, R, A)
    IN /\ (ret = null) <=> (cs = {})
       /\ cs # {} =>
            /\ A[FirstOf(cs)] = P => ret = SameMsg(R, FirstOf(cs))
            /\ A[FirstOf(cs)] # P => ret = NestedMsg(R, FirstOf(cs))

\* a candidate equal to the stale value of its own field, and free of conflicts
C1_Witness ==
  /\ Validated
  /\ ret = null
  /\ args.settings[args.field] = args.newPath
  /\ \E f \in ParaFolderField \ {args.field} : StartsWith(args.settings[f], args.newPath)

\* C5: with more than one conflicting role only the first in the order
\* Projects, Areas, Resources, Archive is reported, and its kind is decided by
\* that role alone: nesting with an earlier role wins over equality with a
\* later one.
C5_FirstConflictOnly ==
  Validated =>
    LET P == args.newPath
        R == args.field
        A == args.settings
        cs == ConflictingFields(P, R, A)
    IN Cardinality(cs) > 1 =>
         /\ ret[1] = FOLDER_NAMES[R]
         /\ ret[3] = FOLDER_NAMES[FirstOf(cs)]
         /\ (Nests(P, A[FirstOf(cs)]) /\ \E g \in cs : A[g] = P)
              => ret = NestedMsg(R, FirstOf(cs))

\* nested with an earlier role, equal to a later one: the nesting is reported
C5_Witness ==
  /\ Validated
  /\ \E f, g \in ParaFolderField \ {args.field} :
       /\ RoleIndex[f] < RoleIndex[g]
       /\ Nests(args.newPath, args.settings[f])
       /\ args.settings[g] = args.newPath
       /\ ret = NestedMsg(args.field, f)

Proj == <<"P", "r", "o", "j">>

\* C6: the nesting that validation reports is by "/"-separated segments: one
\* path's segments are a strict prefix of the other's.  A raw string prefix
\* ending inside a segment is no nesting, the relation is symmetric, and equal
\* paths are never reported as nested.
C6_SegmentNesting ==
  Validated =>
    LET P == args.newPath
        R == args.field
        A == args.settings
    IN /\ \A f \in ParaFolderField \ {R} :
            /\ ret = NestedMsg(R, f) => P # A[f] /\ Nests(P, A[f])
            /\ isNestedPath(P, A[f]) <=> Nests(P, A[f])
            /\ isNestedPath(P, A[f]) <=> isNestedPath(A[f], P)
       /\ (\A f \in ParaFolderField \ {R} : P # A[f] /\ ~Nests(P, A[f])) => ret = null
       /\ validateParaFolderPath(Proj, R, [A EXCEPT !.projectsPath = Projects,
              !.areasPath = Projects, !.resourcesPath = Projects, !.archivePath = Projects])
            = null
       /\ validateParaFolderPath(Projects \o <<"/">> \o Archive, "archivePath",
              [A EXCEPT !.projectsPath = Projects, !.areasPath = Areas,
                        !.resourcesPath = Resources])
            = NestedMsg("archivePath", "projectsPath")

\* a candidate that is a raw prefix of another role's path, inside a segment,
\* and passes
C6_Witness ==
  /\ Validated
  /\ ret = null
  /\ \E f \in ParaFolderField \ {args.field} :
       /\ args.settings[f] # args.newPath
       /\ StartsWith(args.settings[f], args.newPath)

(***************************************************************************)
(* Claims about normalisation alone (SpecNorm)                             *)
(***************************************************************************)
Normalized == ret # NotRun /\ DOMAIN args = {"value", "field"}

\* empty, whitespace-only or slash-only
BlankOrSlashes(value) ==
  \/ \A i \in 1..Len(value) : value[i] \in Whitespace
  \/ \A i \in 1..Len(value) : value[i] = "/"

\* C7: whatever is typed, the candidate handed to validation is non-empty and
\* does not end in "/"; it is the typed text without its surrounding
\* whitespace and without its trailing "/", and the field's own default when
\* nothing is left (empty, whitespace-only or slash-only text).
C7_CandidateWellFormed ==
  Normalized =>
    /\ ret # <<>>
    /\ Last(ret) # "/"
    /\ BlankOrSlashes(args.value) => ret = FOLDER_DEFAULTS[args.field]
    /\ \/ ret = FOLDER_DEFAULTS[args.field]
       \/ \E i \in 1..Len(args.value) :
            /\ \A k \in 1..(i - 1) : args.value[k] \in Whitespace
            /\ args.value[i] \notin Whitespace
            /\ ret = SubSeq(args.value, i, i + Len(ret) - 1)
            /\ \A k \in (i + Len(ret))..Len(args.value) : args.value[k] \in Whitespace \cup {"/"}

\* a non-empty text of slashes only, replaced by the default
C7_Witness ==
  /\ Normalized
  /\ args.value # <<>>
  /\ \A i \in 1..Len(args.value) : args.value[i] = "/"
  /\ ret = FOLDER_DEFAULTS[args.field]

\* C9: normalisation is idempotent, and its result has neither leading nor
\* trailing whitespace.
C9_NormalizationIdempotent ==
  Normalized =>
    /\ normalized(ret, args.field) = ret
    /\ Head(ret) \notin Whitespace
    /\ Last(ret) \notin Whitespace

(***************************************************************************)
(* The settings tab                                                        *)
(***************************************************************************)
\* texts typed into a folder field: nothing, a name, the name with a trailing
\* "/", with a space before the "/", a folder inside it, and the default
\* name of another role
RawInputs ==
  {<<>>, <<"a">>, <<"a", "/">>, <<"a", " ", "/">>, <<"a", "/", "a">>, Areas}

Init == UiIdle /\ FnIdle /\ RelIdle

\* the candidate is stored before it is validated and not taken back
BlurCommitFirst(field, value) ==
  LET norm == normalized(value, field)
      error == validateParaFolderPath(norm, field, settings)
  IN /\ settings' = [settings EXCEPT ![field] = norm]
     /\ IF error # null
        THEN /\ errStyled' = errStyled \cup {field}
             /\ fieldText' = [fieldText EXCEPT ![field] = settings[field]]
             /\ UNCHANGED pending
        ELSE /\ pending < MaxPending
             /\ errStyled' = errStyled \ {field}
             /\ fieldText' = [fieldText EXCEPT ![field] = value]
             /\ pending' = pending + 1

\* the text as typed is stored, not the normalised candidate
BlurCommitsRaw(field, value) ==
  LET norm == normalized(value, field)
      error == validateParaFolderPath(norm, field, settings)
  IN IF error # null
     THEN /\ errStyled' = errStyled \cup {field}
          /\ fieldText' = [fieldText EXCEPT ![field] = settings[field]]
          /\ UNCHANGED <<settings, pending>>
     ELSE /\ pending < MaxPending
          /\ errStyled' = errStyled \ {field}
          /\ settings' = [settings EXCEPT ![field] = value]
          /\ fieldText' = [fieldText EXCEPT ![field] = value]
          /\ pending' = pending + 1

\* the blur listener of field's input, up to its await: the field holds value
Blur(field, value) ==
  LET norm == normalized(value, field)
      error == validateParaFolderPath(norm, field, settings)
  IN IF error # null
     THEN /\ errStyled' = errStyled \cup {field}
          /\ fieldText' = [fieldText EXCEPT ![field] = settings[field]]
          /\ UNCHANGED <<settings, pending>>
     ELSE /\ pending < MaxPending
          /\ errStyled' = errStyled \ {field}
          /\ settings' = [settings EXCEPT ![field] = norm]
          /\ fieldText' = [fieldText EXCEPT ![field] = value]
          /\ pending' = pending + 1

\* the user types value into the field and leaves it
EditField ==
  /\ \E field \in ParaFolderField, value \in RawInputs : Blur(field, value)
  /\ UNCHANGED <<fnVars, relVars>>

\* the user enters the field and leaves it without typing
ReBlur ==
  /\ \E field \in ParaFolderField : Blur(field, fieldText[field])
  /\ UNCHANGED <<fnVars, relVars>>

\* the timer set by a rejected blur removes the error styling
ClearError ==
  /\ \E field \in errStyled : errStyled' = errStyled \ {field}
  /\ UNCHANGED <<settings, fieldText, pending, fnVars, relVars>>

\* a saveSettings call completes and the handler awaiting it ends
SaveDone ==
  /\ pending > 0
  /\ pending' = pending - 1
  /\ UNCHANGED <<settings, fieldText, errStyled, fnVars, relVars>>

ToggleFocus ==
  /\ pending < MaxPending
  /\ settings' = [settings EXCEPT !.focusAfterArchive = ~settings.focusAfterArchive]
  /\ pending' = pending + 1
  /\ UNCHANGED <<fieldText, errStyled, fnVars, relVars>>

ToggleConfirm ==
  /\ pending < MaxPending
  /\ settings' = [settings EXCEPT !.confirmBeforeArchive = ~settings.confirmBeforeArchive]
  /\ pending' = pending + 1
  /\ UNCHANGED <<fieldText, errStyled, fnVars, relVars>>

\* the tab is rebuilt: every field shows its committed path, unstyled
Display ==
  /\ fieldText' = [f \in ParaFolderField |-> settings[f]]
  /\ errStyled' = {}
  /\ UNCHANGED <<settings, pending, fnVars, relVars>>

Next ==
  \/ EditField
  \/ ReBlur
  \/ ClearError
  \/ SaveDone
  \/ ToggleFocus
  \/ ToggleConfirm
  \/ Display

Spec == Init /\ [][Next]_vars

(***************************************************************************)
(* One run of the blur listener: any assignment the tab can be in, a field *)
(* and a text; args keeps what the listener found                          *)
(***************************************************************************)
UiPaths(field) == {normalized(value, field) : value \in RawInputs}

\* the assignments that edits of the defaults lead to
TabSettings ==
  {s \in [projectsPath : UiPaths("projectsPath"), areasPath : UiPaths("areasPath"),
          resourcesPath : UiPaths("resourcesPath"), archivePath : UiPaths("archivePath"),
          focusAfterArchive : BOOLEAN, confirmBeforeArchive : BOOLEAN] :
     \A f, g \in ParaFolderField :
       f # g => s[f] # s[g] /\ ~isNestedPath(s[f], s[g])}

InitBlur ==
  /\ settings \in TabSettings
  /\ fieldText = [f \in ParaFolderField |-> settings[f]]
  /\ pending \in 0..(MaxPending - 1)
  /\ \E field \in ParaFolderField, value \in RawInputs :
       /\ errStyled \in SUBSET {field}
       /\ args = [field |-> field, value |-> value, settings |-> settings,
                  pending |-> pending]
  /\ ret = NotRun
  /\ RelIdle

RunBlur ==
  /\ ret = NotRun
  /\ Blur(args.field, args.value)
  /\ ret' = validateParaFolderPath(normalized(args.value, args.field), args.field, settings)
  /\ UNCHANGED <<args, relVars>>

NextBlur == RunBlur

SpecBlur == InitBlur /\ [][NextBlur]_vars

(***************************************************************************)
(* Claims about one run of the blur listener (SpecBlur)                    *)
(***************************************************************************)
BlurRan == ret # NotRun /\ DOMAIN args = {"field", "value", "settings", "pending"}

\* C3: a blur whose candidate is rejected changes no setting (paths and
\* toggles), calls no saveSettings, and puts the field back to the path
\* committed for it.
C3_RejectKeepsPrior ==
  (BlurRan /\ ret # null) =>
    /\ settings = args.settings
    /\ pending = args.pending
    /\ fieldText[args.field] = args.settings[args.field]
    /\ \A f \in ParaFolderField \ {args.field} : fieldText[f] = args.settings[f]

\* a rejected text, typed over a committed path that is not the default
C3_Witness ==
  /\ BlurRan
  /\ ret # null
  /\ args.settings[args.field] # FOLDER_DEFAULTS[args.field]
  /\ args.value # args.settings[args.field]
  /\ args.field \in errStyled

\* C4: a blur whose candidate passes sets exactly the field's own setting to
\* the normalised candidate and calls saveSettings once; the other three
\* paths and the two toggles stay as they were.
C4_CommitOnlyOwnField ==
  (BlurRan /\ ret = null) =>
    /\ settings[args.field] = normalized(args.value, args.field)
    /\ \A k \in DOMAIN args.settings \ {args.field} : settings[k] = args.settings[k]
    /\ DOMAIN settings = DOMAIN args.settings
    /\ pending = args.pending + 1

\* a new path committed, not the text as typed, with both toggles flipped
C4_Witness ==
  /\ BlurRan
  /\ ret = null
  /\ settings[args.field] # args.settings[args.field]
  /\ settings[args.field] # args.value
  /\ ~settings.focusAfterArchive
  /\ settings.confirmBeforeArchive

(***************************************************************************)
(* Claims about the settings tab (Spec)                                    *)
(***************************************************************************)
\* C2: from the default paths, through any blur-edits (saves still awaited or
\* not), no two roles hold equal paths and no role's path is an ancestor or
\* a descendant of another role's path.
C2_PathAssignmentInvariant ==
  \A f, g \in ParaFolderField :
    f # g => settings[f] # settings[g] /\ ~Nests(settings[f], settings[g])

\* edits committed and rejected, two saves still awaited, a path of two
\* segments
C2_Witness ==
  /\ pending > 1
  /\ errStyled # {}
  /\ \E f, g \in ParaFolderField :
       /\ f # g
       /\ settings[f] # FOLDER_DEFAULTS[f]
       /\ Len(Split(settings[g])) > 1

\* C8: every committed path passes validation against the current assignment
\* (its own field's value being ignored), and a blur of a field that shows
\* its committed path reports no conflict and leaves the assignment as it is.
C8_SelfConsistent ==
  /\ [](\A f \in ParaFolderField : validateParaFolderPath(settings[f], f, settings) = null)
  /\ [][\A f \in ParaFolderField :
          (fieldText[f] = settings[f] /\ Blur(f, fieldText[f]))
            => settings' = settings /\ f \notin errStyled']_vars

(***************************************************************************)
(* The release script: args is the command line and the version found in   *)
(* manifest.json, ret the new version, files what the three JSON files     *)
(* hold, log the steps done so far with their outcome                      *)
(***************************************************************************)
ArgvValues == {"", "patch", "minor", "major", "other"}

Versions == (0..MaxVer) \X (0..MaxVer) \X (0..MaxVer)

\* process.argv[2] || 'patch'
BUMP_TYPE == IF args.argv = "" THEN "patch" ELSE args.argv

\* the switch on BUMP_TYPE
newVersion(v) ==
  CASE BUMP_TYPE = "major" -> <<v[1] + 1, 0, 0>>
    [] BUMP_TYPE = "minor" -> <<v[1], v[2] + 1, 0>>
    [] BUMP_TYPE = "patch" -> <<v[1], v[2], v[3] + 1>>

FilesAtStart(v) == [manifest |-> v, package |-> v, versions |-> {v}]

InitRelease ==
  /\ args \in [argv : ArgvValues, version : Versions]
  /\ ret = NotRun
  /\ pc = "start"
  /\ files = FilesAtStart(args.version)
  /\ log = <<>>
  /\ exitCode = -1
  /\ UiIdle

\* an exception nobody catches ends the process with status 1
Throw == pc' = "exited" /\ exitCode' = 1

\* a failed command is logged and the script goes on
runIgnoringFailure(cmd, next, ok) ==
  /\ log' = Append(log, <<cmd, ok>>)
  /\ pc' = next
  /\ UNCHANGED exitCode

\* run(cmd, args): execFileSync throws when the command fails
run(cmd, next, ok) ==
  /\ log' = Append(log, <<cmd, ok>>)
  /\ IF ok THEN pc' = next /\ UNCHANGED exitCode ELSE Throw

CheckBumpType ==
  /\ pc = "start"
  /\ IF BUMP_TYPE \notin {"patch", "minor", "major"}
     THEN pc' = "exited" /\ exitCode' = 1
     ELSE pc' = "readManifest" /\ UNCHANGED exitCode
  /\ UNCHANGED <<args, ret, files, log, uiVars>>

\* readJson('manifest.json') and the new version; the read may throw
ReadManifest ==
  /\ pc = "readManifest"
  /\ \E ok \in BOOLEAN :
       IF ok THEN /\ ret' = newVersion(files.manifest)
                  /\ pc' = "writeManifest"
                  /\ UNCHANGED exitCode
             ELSE Throw /\ UNCHANGED ret
  /\ UNCHANGED <<args, files, log, uiVars>>

WriteManifest ==
  /\ pc = "writeManifest"
  /\ \E ok \in BOOLEAN :
       IF ok THEN /\ files' = [files EXCEPT !.manifest = ret]
                  /\ log' = Append(log, <<"write manifest.json", TRUE>>)
                  /\ pc' = "writePackage"
                  /\ UNCHANGED exitCode
             ELSE Throw /\ UNCHANGED <<files, log>>
  /\ UNCHANGED <<args, ret, uiVars>>

WritePackage ==
  /\ pc = "writePackage"
  /\ \E ok \in BOOLEAN :
       IF ok THEN /\ files' = [files EXCEPT !.package = ret]
                  /\ log' = Append(log, <<"write package.json", TRUE>>)
                  /\ pc' = "writeVersions"
                  /\ UNCHANGED exitCode
             ELSE Throw /\ UNCHANGED <<files, log>>
  /\ UNCHANGED <<args, ret, uiVars>>

WriteVersions ==
  /\ pc = "writeVersions"
  /\ \E ok \in BOOLEAN :
       IF ok THEN /\ files' = [files EXCEPT !.versions = @ \cup {ret}]
                  /\ log' = Append(log, <<"write versions.json", TRUE>>)
                  /\ pc' = "build"
                  /\ UNCHANGED exitCode
             ELSE Throw /\ UNCHANGED <<files, log>>
  /\ UNCHANGED <<args, ret, uiVars>>

Build ==
  /\ pc = "build"
  /\ \E ok \in BOOLEAN : run("npm run build", "gitAdd", ok)
  /\ UNCHANGED <<args, ret, files, uiVars>>

GitAdd ==
  /\ pc = "gitAdd"
  /\ \E ok \in BOOLEAN : run("git add", "gitCommit", ok)
  /\ UNCHANGED <<args, ret, files, uiVars>>

GitCommit ==
  /\ pc = "gitCommit"
  /\ \E ok \in BOOLEAN : run("git commit", "gitTag", ok)
  /\ UNCHANGED <<args, ret, files, uiVars>>

GitTag ==
  /\ pc = "gitTag"
  /\ \E ok \in BOOLEAN : run("git tag", "gitPush", ok)
  /\ UNCHANGED <<args, ret, files, uiVars>>

GitPush ==
  /\ pc = "gitPush"
  /\ \E ok \in BOOLEAN : run("git push", "ghRelease", ok)
  /\ UNCHANGED <<args, ret, files, uiVars>>

GhRelease ==
  /\ pc = "ghRelease"
  /\ \E ok \in BOOLEAN : run("gh release create", "released", ok)
  /\ UNCHANGED <<args, ret, files, uiVars>>

\* the last console.log, and the script ends
Released ==
  /\ pc = "released"
  /\ pc' = "exited"
  /\ exitCode' = 0
  /\ UNCHANGED <<args, ret, files, log, uiVars>>

NextRelease ==
  \/ CheckBumpType
  \/ ReadManifest
  \/ WriteManifest
  \/ WritePackage
  \/ WriteVersions
  \/ Build
  \/ GitAdd
  \/ GitCommit
  \/ GitTag
  \/ GitPush
  \/ GhRelease
  \/ Released

SpecRelease == InitRelease /\ [][NextRelease]_vars

(***************************************************************************)
(* Claims about the release script (SpecRelease)                           *)
(***************************************************************************)
StepOrder ==
  <<"write manifest.json", "write package.json", "write versions.json", "npm run build",
    "git add", "git commit", "git tag", "git push", "gh release create">>

Succeeded(cmd) == \E i \in 1..Len(log) : log[i] = <<cmd, TRUE>>

Attempted(cmd) == \E i \in 1..Len(log) : log[i][1] = cmd

\* C10: an invalid bump type ends the script with status 1 before any file is
\* written or command run; otherwise the steps happen in the order manifest,
\* package, versions, build, add, commit, tag, push, release; a step that
\* fails is the last one, so no tag is made or pushed and no release created
\* unless the build and the commit succeeded.
C10_FailStopInOrder ==
  /\ (BUMP_TYPE \notin {"patch", "minor", "major"} /\ pc # "start")
       => /\ pc = "exited" /\ exitCode = 1
          /\ log = <<>>
          /\ files = FilesAtStart(args.version)
  /\ Len(log) <= Len(StepOrder)
  /\ \A i \in 1..Len(log) :
       /\ log[i][1] = StepOrder[i]
       /\ i < Len(log) => log[i][2]
  /\ (log # <<>> /\ ~log[Len(log)][2]) => pc = "exited" /\ exitCode = 1
  /\ Attempted("git tag") => Succeeded("npm run build") /\ Succeeded("git commit")
  /\ Attempted("git push") => Succeeded("git tag")
  /\ Attempted("gh release create")
       => Succeeded("npm run build") /\ Succeeded("git commit") /\ Succeeded("git push")
  /\ exitCode = 0 => \A i \in 1..Len(StepOrder) : Succeeded(StepOrder[i])

\* the push failed after the tag was made: the script stopped, nothing released
C10_Witness ==
  /\ pc = "exited"
  /\ exitCode = 1
  /\ Succeeded("git tag")
  /\ Attempted("git push")
  /\ ~Succeeded("git push")
  /\ ~Attempted("gh release create")

====
